---- MODULE Spec2Model ----
(***************************************************************************)
(* Expense Tracker: the persistence layer (storage.py), the parsing        *)
(* helpers (utils.py) and the menu controller (expense_tracker.py).        *)
(*                                                                         *)
(* Representation.                                                         *)
(*   text    a sequence of tokens; the token " " is one whitespace         *)
(*           character, every other token is a run of non-blank            *)
(*           characters.  str.strip() removes leading and trailing " ".    *)
(*   date    the ISO string 'YYYY-MM-DD' as the number YYYYMMDD: the       *)
(*           strings are fixed-width and zero-padded, so string order is   *)
(*           number order and the 7-character prefix is date \div 100.     *)
(*   amount  a number of thousandths (mills); 12.50 is 12500.              *)
(*   None    Python None / SQL NULL: NULL for numbers, NoText for texts.   *)
(***************************************************************************)
EXTENDS Integers, Sequences, FiniteSets, TLC

VARIABLES categories, expenses, catSeq, expSeq, call,
          pc, status, loc, input, out

store == <<categories, expenses, catSeq, expSeq>>
ui    == <<pc, status, loc, input, out>>
vars  == <<categories, expenses, catSeq, expSeq, call, pc, status, loc, input, out>>

NULL   == -1
NoText == <<"NULL">>
Blank  == " "
Placeholder == <<"-">>

(***************************************************************************)
(* Bounds of the model.                                                    *)
(***************************************************************************)
MaxStoreExpenses == 2
MaxStoreCategories == 1
MaxQueryExpenses == 2
MaxQueryCategories == 2
MaxMenuExpenses == 1
MaxSeedRuns == 2
SeedThisMonth == 1
SeedPrevMonth == 1

(***************************************************************************)
(* utils.py                                                                *)
(***************************************************************************)
RECURSIVE lstrip(_)
lstrip(t) == IF t # <<>> /\ Head(t) = Blank THEN lstrip(Tail(t)) ELSE t

RECURSIVE rstrip(_)
rstrip(t) ==
    IF t # <<>> /\ t[Len(t)] = Blank THEN rstrip(SubSeq(t, 1, Len(t) - 1)) ELSE t

strip(t) == rstrip(lstrip(t))

(***************************************************************************)
(* A line typed at a prompt.  What the code asks of a line is modelled by  *)
(* the shape of the line:                                                  *)
(*   Empty           nothing but blanks: raw.strip() == ""                 *)
(*   Digits(n)       raw.isdigit() holds and int(raw) = n                  *)
(*   Word(w)         a non-numeric word                                    *)
(*   Number(v)       a decimal number that float() accepts once "," is     *)
(*                   replaced by "."; v is its value in mills              *)
(*   DateText(..)    digits in the pattern NNNN-NN-NN ("iso") or NNNN/NN/NN*)
(*   Text(t)         free text, a sequence of tokens                       *)
(***************************************************************************)
Empty == [k |-> "empty"]
Digits(n) == [k |-> "digits", n |-> n]
Word(w) == [k |-> "word", w |-> w]
Number(v) == [k |-> "number", mills |-> v]
DateText(fmt, y, m, d) == [k |-> "date", fmt |-> fmt, y |-> y, m |-> m, d |-> d]
Text(t) == [k |-> "text", t |-> t]

\* raw.strip() == ""
IsBlank(s) == s.k = "empty" \/ (s.k = "text" /\ strip(s.t) = <<>>)

\* ask(...).strip() of a free-text line
Stripped(s) == IF s.k = "text" THEN strip(s.t) ELSE <<>>

\* datetime.strptime(s, "%Y-%m-%d") accepts real calendar dates only
DaysInMonth(y, m) ==
    IF m \in {4, 6, 9, 11} THEN 30
    ELSE IF m # 2 THEN 31
    ELSE IF (y % 4 = 0 /\ y % 100 # 0) \/ y % 400 = 0 THEN 29 ELSE 28

IsoDate(y, m, d) == y * 10000 + m * 100 + d

\* ISO_DATE_RE.match, then strptime; None when either rejects
parse_iso_date(s) ==
    IF /\ s.k = "date" /\ s.fmt = "iso"
       /\ s.y >= 1 /\ s.m \in 1..12 /\ s.d \in 1..DaysInMonth(s.y, s.m)
    THEN IsoDate(s.y, s.m, s.d)
    ELSE NULL

\* round(value, 2) in mills, for values that are no exact tie (v % 10 # 5);
\* the lines of the model hold no tie.
Round2(v) == ((v + 5) \div 10) * 10

\* float(s) raises ValueError for anything but a number; value <= 0 is
\* rejected BEFORE rounding, so a value in (0, 0.005) is returned as 0.
parse_amount(s) ==
    IF s.k \notin {"number", "digits"} THEN NULL
    ELSE LET value == IF s.k = "digits" THEN s.n * 1000 ELSE s.mills IN
         IF value <= 0 THEN NULL ELSE Round2(value)

\* yn(prompt, default): "retry" stands for the prompt being repeated
yn(s, default) ==
    IF IsBlank(s) THEN [again |-> FALSE, value |-> default]
    ELSE IF s.k = "word" /\ s.w \in {"y", "yes"} THEN [again |-> FALSE, value |-> TRUE]
    ELSE IF s.k = "word" /\ s.w \in {"n", "no"} THEN [again |-> FALSE, value |-> FALSE]
    ELSE [again |-> TRUE, value |-> default]

(***************************************************************************)
(* storage.py: the two tables.  categories is a set of rows [id, name],    *)
(* expenses a set of rows [id, date, amount, description, category_id];    *)
(* catSeq and expSeq are the AUTOINCREMENT counters (the largest id ever   *)
(* handed out per table), so an id is never reused after a delete.         *)
(***************************************************************************)
CatIds(cats) == {c.id : c \in cats}

ExpIds(exps) == {e.id : e \in exps}

\* add_category on a table whose name column is not UNIQUE
add_category_not_unique(cats, seq, name) ==
    [raised |-> FALSE,
     categories |-> cats \cup {[id |-> seq + 1, name |-> strip(name)]},
     seq |-> seq + 1, id |-> seq + 1]

\* INSERT INTO categories(name) VALUES(name.strip()); name is UNIQUE (BINARY
\* collation: case-sensitive), a duplicate raises sqlite3.IntegrityError.
add_category(cats, seq, name) ==
    LET n == strip(name) IN
    IF \E c \in cats : c.name = n
    THEN [raised |-> TRUE, categories |-> cats, seq |-> seq, id |-> NULL]
    ELSE [raised |-> FALSE,
          categories |-> cats \cup {[id |-> seq + 1, name |-> n]},
          seq |-> seq + 1, id |-> seq + 1]

\* SELECT id, name FROM categories ORDER BY name ASC.  The order only fixes
\* the order of printing; every caller uses the rows as a collection.
list_categories(cats) == {<<c.id, c.name>> : c \in cats}

\* add_expense storing the description as given, untrimmed
add_expense_untrimmed(exps, cats, seq, date, amount, description, category_id) ==
    IF category_id # NULL /\ category_id \notin CatIds(cats)
    THEN [raised |-> TRUE, expenses |-> exps, seq |-> seq, id |-> NULL]
    ELSE [raised |-> FALSE,
          expenses |-> exps \cup {[id |-> seq + 1, date |-> date, amount |-> amount,
                                   description |-> description,
                                   category_id |-> category_id]},
          seq |-> seq + 1, id |-> seq + 1]

\* INSERT INTO expenses ...: description.strip() if description else None.
\* PRAGMA foreign_keys = ON: a category_id that names no category raises.
add_expense(exps, cats, seq, date, amount, description, category_id) ==
    LET d == IF description # NoText /\ description # <<>>
             THEN strip(description) ELSE NoText
    IN
    IF category_id # NULL /\ category_id \notin CatIds(cats)
    THEN [raised |-> TRUE, expenses |-> exps, seq |-> seq, id |-> NULL]
    ELSE [raised |-> FALSE,
          expenses |-> exps \cup {[id |-> seq + 1, date |-> date, amount |-> amount,
                                   description |-> d, category_id |-> category_id]},
          seq |-> seq + 1, id |-> seq + 1]

\* COALESCE(c.name, '-') over LEFT JOIN categories c ON c.id = e.category_id
JoinedName(cats, e) ==
    IF \E c \in cats : c.id = e.category_id
    THEN (CHOOSE c \in cats : c.id = e.category_id).name
    ELSE NoText

Coalesce(v, dflt) == IF v = NoText THEN dflt ELSE v

Row(cats, e) ==
    <<e.id, e.date, e.amount, Coalesce(e.description, <<>>),
      Coalesce(JoinedName(cats, e), Placeholder)>>

\* ORDER BY e.date DESC, e.id DESC
Before(a, b) == a.date > b.date \/ (a.date = b.date /\ a.id > b.id)

RECURSIVE OrderRows(_, _)
OrderRows(cats, rows) ==
    IF rows = {} THEN <<>>
    ELSE LET first == CHOOSE a \in rows : \A b \in rows \ {a} : Before(a, b)
         IN <<Row(cats, first)>> \o OrderRows(cats, rows \ {first})

\* list_expenses with both date bounds exclusive
list_expenses_exclusive(exps, cats, date_from, date_to, category_id) ==
    LET sel == {e \in exps :
                  /\ (date_from # NULL => e.date > date_from)
                  /\ (date_to # NULL => e.date < date_to)
                  /\ (category_id # NULL => e.category_id = category_id)}
    IN OrderRows(cats, sel)

\* Python truthiness of an Optional[int]: None and 0 are both false.
Truthy(v) == v # NULL /\ v # 0

list_expenses(exps, cats, date_from, date_to, category_id) ==
    LET sel == {e \in exps :
                  /\ (Truthy(date_from) => e.date >= date_from)
                  /\ (Truthy(date_to) => e.date <= date_to)
                  /\ (Truthy(category_id) => e.category_id = category_id)}
    IN OrderRows(cats, sel)

\* DELETE FROM expenses WHERE id = ?; returns rowcount > 0
delete_expense(exps, expense_id) ==
    [expenses |-> {e \in exps : e.id # expense_id},
     result |-> \E e \in exps : e.id = expense_id]

\* The SET list update_expense builds: line 106 holds for every category_id,
\* so "category_id = ?" is always in it.
UpdateFields(date, amount, description, category_id) ==
    (IF date # NULL THEN {"date"} ELSE {})
    \cup (IF amount # NULL THEN {"amount"} ELSE {})
    \cup (IF description # NoText THEN {"description"} ELSE {})
    \cup (IF category_id # NULL \/ category_id = NULL THEN {"category_id"} ELSE {})

update_expense(exps, cats, expense_id, date, amount, description, category_id) ==
    LET fields == UpdateFields(date, amount, description, category_id)
        hit == {e \in exps : e.id = expense_id}
        new(e) == [id |-> e.id,
                   date |-> IF "date" \in fields THEN date ELSE e.date,
                   amount |-> IF "amount" \in fields THEN amount ELSE e.amount,
                   description |-> IF "description" \in fields
                                   THEN description ELSE e.description,
                   category_id |-> IF "category_id" \in fields
                                   THEN category_id ELSE e.category_id]
    IN
    IF fields = {}
    THEN [raised |-> FALSE, expenses |-> exps, result |-> FALSE]
    ELSE IF /\ hit # {} /\ "category_id" \in fields
            /\ category_id # NULL /\ category_id \notin CatIds(cats)
    THEN [raised |-> TRUE, expenses |-> exps, result |-> FALSE]
    ELSE [raised |-> FALSE,
          expenses |-> (exps \ hit) \cup {new(e) : e \in hit},
          result |-> hit # {}]

\* the foreign key without its ON DELETE SET NULL action
on_delete_no_action(exps, category_id) == exps

\* FOREIGN KEY(category_id) REFERENCES categories(id) ON DELETE SET NULL,
\* enforced because connect() turns foreign_keys on: what the store does to
\* the expenses when a row of categories is deleted.
on_delete_set_null(exps, category_id) ==
    {IF e.category_id = category_id
     THEN [e EXCEPT !.category_id = NULL] ELSE e : e \in exps}

\* WHERE e.date LIKE 'YYYY-MM' || '%'
InMonth(e, year, month) == e.date \div 100 = year * 100 + month

RECURSIVE SumAmounts(_)
SumAmounts(rows) ==
    IF rows = {} THEN 0
    ELSE LET e == CHOOSE x \in rows : TRUE IN e.amount + SumAmounts(rows \ {e})

\* GROUP BY c.name: one group per value of the joined name, NULL included.
MonthGroups(exps, cats, year, month) ==
    {JoinedName(cats, e) : e \in {x \in exps : InMonth(x, year, month)}}

GroupTotal(exps, cats, year, month, g) ==
    SumAmounts({e \in exps : InMonth(e, year, month) /\ JoinedName(cats, e) = g})

\* One row per group in the order `ord` of the groups; ORDER BY total DESC
\* leaves the order of equal totals open.
monthly_totals_by_category(exps, cats, year, month, ord) ==
    [i \in 1..Len(ord) |->
        <<Coalesce(ord[i], Placeholder), GroupTotal(exps, cats, year, month, ord[i])>>]

TotalOrders(exps, cats, year, month) ==
    LET gs == MonthGroups(exps, cats, year, month)
        n == Cardinality(gs)
    IN {ord \in [1..n -> gs] :
          /\ \A i, j \in 1..n : i # j => ord[i] # ord[j]
          /\ \A i, j \in 1..n : i < j =>
                GroupTotal(exps, cats, year, month, ord[i])
                    >= GroupTotal(exps, cats, year, month, ord[j])}

(***************************************************************************)
(* The state after ensure_db() on a fresh file: both tables empty, the     *)
(* menu about to be shown.                                                 *)
(***************************************************************************)
NoCall == [op |-> "none", args |-> <<>>, raised |-> FALSE, result |-> NULL]

NoLoc == [eid |-> NULL, date |-> NULL, date_to |-> NULL, amount |-> NULL,
          desc |-> NoText, year |-> NULL]

NoInput == [k |-> "none"]

Init ==
    /\ categories = {}
    /\ expenses = {}
    /\ catSeq = 0
    /\ expSeq = 0
    /\ call = NoCall
    /\ pc = "menu"
    /\ status = "running"
    /\ loc = NoLoc
    /\ input = NoInput
    /\ out = "banner"

(***************************************************************************)
(* The persistence layer called directly.  Arguments are drawn from small  *)
(* sets of well-formed values (callers pre-validate dates and amounts); a  *)
(* category or expense reference may name a row that does not exist.       *)
(***************************************************************************)
CallAddCategory(names, cap) ==
    /\ catSeq < cap
    /\ \E name \in names :
         LET r == add_category(categories, catSeq, name) IN
         /\ categories' = r.categories
         /\ catSeq' = r.seq
         /\ call' = [op |-> "add_category", args |-> <<name>>,
                     raised |-> r.raised, result |-> r.id]
    /\ UNCHANGED <<expenses, expSeq, ui>>

CallAddExpense(inputs, catRefs, cap) ==
    /\ expSeq < cap
    /\ \E in \in inputs, category_id \in catRefs \cup {NULL} :
         LET r == add_expense(expenses, categories, expSeq,
                              in[1], in[2], in[3], category_id) IN
         /\ expenses' = r.expenses
         /\ expSeq' = r.seq
         /\ call' = [op |-> "add_expense",
                     args |-> <<in[1], in[2], in[3], category_id>>,
                     raised |-> r.raised, result |-> r.id]
    /\ UNCHANGED <<categories, catSeq, ui>>

\* --- mutations: StoreSpec ---
StoreNames == {<<Blank, "Food", Blank>>, <<"-">>}
StoreInputs == {<<20250131, 5000, <<>>>>,
                <<20250215, 10000, <<Blank>>>>,
                <<20250215, 5000, <<Blank, "a", Blank>>>>}
StoreUpdates == {<<NULL, NULL, NoText>>, <<20250201, 7500, <<"b">>>>}
StoreCatRefs == 1..MaxStoreCategories
StoreExpRefs == 1..MaxStoreExpenses

StoreAddCategory == CallAddCategory(StoreNames, MaxStoreCategories)

StoreAddExpense == CallAddExpense(StoreInputs, StoreCatRefs, MaxStoreExpenses)

StoreDeleteExpense ==
    /\ \E expense_id \in StoreExpRefs :
         LET r == delete_expense(expenses, expense_id) IN
         /\ expenses' = r.expenses
         /\ call' = [op |-> "delete_expense", args |-> <<expense_id>>,
                     raised |-> FALSE, result |-> r.result]
    /\ UNCHANGED <<categories, catSeq, expSeq, ui>>

StoreUpdateExpense ==
    /\ \E expense_id \in StoreExpRefs, u \in StoreUpdates,
          category_id \in StoreCatRefs \cup {NULL} :
         LET r == update_expense(expenses, categories, expense_id,
                                 u[1], u[2], u[3], category_id) IN
         /\ expenses' = r.expenses
         /\ call' = [op |-> "update_expense",
                     args |-> <<expense_id, u[1], u[2], u[3], category_id>>,
                     raised |-> r.raised, result |-> r.result]
    /\ UNCHANGED <<categories, catSeq, expSeq, ui>>

\* DELETE FROM categories WHERE id = ?: no function of the program issues
\* it, the schema says what it does to the expenses.  call.result notes the
\* ids of the expenses that referenced the deleted category.
StoreDeleteCategory ==
    /\ \E category_id \in CatIds(categories) :
         /\ categories' = {c \in categories : c.id # category_id}
         /\ expenses' = on_delete_set_null(expenses, category_id)
         /\ call' = [op |-> "delete_category", args |-> <<category_id>>,
                     raised |-> FALSE,
                     result |-> {e.id : e \in {x \in expenses :
                                                 x.category_id = category_id}}]
    /\ UNCHANGED <<catSeq, expSeq, ui>>

StoreNext ==
    \/ StoreAddCategory
    \/ StoreAddExpense
    \/ StoreDeleteExpense
    \/ StoreUpdateExpense
    \/ StoreDeleteCategory

StoreSpec == Init /\ [][StoreNext]_vars

\* --- queries: QuerySpec ---
QueryNames == {<<"Food">>, <<"-">>}
QueryInputs == {<<20250131, 5000, <<>>>>,
                <<20250201, 10000, <<>>>>,
                <<20250215, 5000, <<>>>>}
QueryFrom == {20250201}
QueryTo == {20250201}
QueryMonths == {<<2025, 2>>}
QueryCatRefs == 1..MaxQueryCategories

QueryAddCategory == CallAddCategory(QueryNames, MaxQueryCategories)

QueryAddExpense == CallAddExpense(QueryInputs, QueryCatRefs, MaxQueryExpenses)

QueryListCategories ==
    /\ call' = [op |-> "list_categories", args |-> <<>>, raised |-> FALSE,
                result |-> list_categories(categories)]
    /\ UNCHANGED <<store, ui>>

QueryListExpenses ==
    /\ \E date_from \in QueryFrom \cup {NULL}, date_to \in QueryTo \cup {NULL},
          category_id \in QueryCatRefs \cup {NULL} :
         call' = [op |-> "list_expenses", args |-> <<date_from, date_to, category_id>>,
                  raised |-> FALSE,
                  result |-> list_expenses(expenses, categories,
                                           date_from, date_to, category_id)]
    /\ UNCHANGED <<store, ui>>

QueryMonthlyTotals ==
    /\ \E ym \in QueryMonths :
       \E ord \in TotalOrders(expenses, categories, ym[1], ym[2]) :
         call' = [op |-> "monthly_totals_by_category", args |-> ym, raised |-> FALSE,
                  result |-> monthly_totals_by_category(expenses, categories,
                                                        ym[1], ym[2], ord)]
    /\ UNCHANGED <<store, ui>>

QueryNext ==
    \/ QueryAddCategory
    \/ QueryAddExpense
    \/ QueryListCategories
    \/ QueryListExpenses
    \/ QueryMonthlyTotals

QuerySpec == Init /\ [][QueryNext]_vars

(***************************************************************************)
(* expense_tracker.py: the menu loop.  pc names the prompt the process is  *)
(* blocked on; one step reads one line (or an interrupt, or the end of     *)
(* input) and runs the code up to the next prompt.  input is the line just *)
(* read, out the last message printed, call the last store call.           *)
(***************************************************************************)
MenuLines == {Digits(n) : n \in 0..9} \cup {Word("x")}
NameLines == {Text(<<>>), Text(<<"Food">>), Text(<<Blank, "Food", Blank>>)}
CategoryMenuLines == {Digits(0), Digits(1), Digits(2), Digits(9), Word("x")}
CategoryNameLines == NameLines \cup {Text(<<"food">>), Text(<<"-">>)}
DateLines == {Empty, DateText("iso", 2025, 2, 15), DateText("iso", 2025, 2, 30),
              DateText("slash", 2025, 2, 15)}
AmountLines == {Empty, Word("abc"), Number(-3000), Number(4), Number(12504)}
DescLines == {Text(<<>>), Text(<<Blank, "a", Blank>>)}
CategoryLines == {Empty, Digits(1), Digits(99), Word("x")}
YesNoLines == {Empty, Word("y"), Word("n"), Word("maybe")}
IdLines == {Digits(1), Digits(99), Word("abc")}
YearLines == {Digits(2025), Digits(25), Word("abc")}
MonthLines == {Digits(2), Digits(13), Word("abc")}
PauseLines == {Empty}

Prompts == {"menu", "cat.name", "add.date", "add.amount", "add.desc", "add.cat",
            "list.from", "list.to", "list.yn", "list.cat", "sum.year", "sum.month",
            "upd.id", "upd.date", "upd.amount", "upd.desc", "upd.yn", "upd.cat",
            "del.id", "del.yn", "pause"}

\* action_seed_demo's constants and the values its random draws take in the
\* model: <<day, cents, description, which category of cat_ids>>, the same
\* draw for every expense of one run.  SeedThisMonth and SeedPrevMonth stand
\* for range(20) and range(15).
defaults == <<(<<"Food">>), (<<"Transport">>), (<<"Entertainment">>),
              (<<"Bills">>), (<<"Health">>), (<<"Other">>)>>
Today == [year |-> 2025, month |-> 1]
DemoDraws == {<<1, 200, <<"Lunch">>, "lowest">>,
              <<28, 5000, <<"Bus", Blank, "ticket">>, "highest">>}

StoreUnchanged == UNCHANGED <<categories, expenses, catSeq, expSeq>>

Reads(p, line) == status = "running" /\ pc = p /\ input' = line

\* the action returns to main(), which blocks on "Press Enter to continue..."
Finish(msg) == pc' = "pause" /\ out' = msg /\ loc' = NoLoc /\ status' = status

\* the same prompt again, after a message
Again(msg) ==
    /\ pc' = pc /\ out' = msg /\ loc' = loc /\ status' = status
    /\ call' = call /\ StoreUnchanged

\* on to the next prompt of the action
Goto(p, l) ==
    /\ pc' = p /\ out' = out /\ loc' = l /\ status' = status
    /\ call' = call /\ StoreUnchanged

\* an exception no handler catches ends the process with a traceback
Crash == pc' = "done" /\ out' = "traceback" /\ loc' = NoLoc /\ status' = "crashed"

\* choose_category's loop body, for a store that has categories
choose_category(cats, raw) ==
    IF IsBlank(raw) THEN [again |-> FALSE, cid |-> NULL]
    ELSE IF raw.k = "digits" /\ \E c \in list_categories(cats) : c[1] = raw.n
    THEN [again |-> FALSE, cid |-> raw.n]
    ELSE [again |-> TRUE, cid |-> NULL]

\* --- the store calls the actions end with ---
DoAddExpense(date, amount, desc, cat_id) ==
    LET r == add_expense(expenses, categories, expSeq, date, amount, desc, cat_id) IN
    /\ expenses' = r.expenses
    /\ expSeq' = r.seq
    /\ UNCHANGED <<categories, catSeq>>
    /\ call' = [op |-> "add_expense", args |-> <<date, amount, desc, cat_id>>,
                raised |-> r.raised, result |-> r.id]
    /\ IF r.raised THEN Crash ELSE Finish("Expense added.")

DoListExpenses(df, dt, cat_id) ==
    LET rows == list_expenses(expenses, categories, df, dt, cat_id) IN
    /\ StoreUnchanged
    /\ call' = [op |-> "list_expenses", args |-> <<df, dt, cat_id>>,
                raised |-> FALSE, result |-> rows]
    /\ Finish(IF rows = <<>> THEN "No expenses found." ELSE "table")

DoUpdateExpense(eid, date, amount, desc, cat_id) ==
    LET r == update_expense(expenses, categories, eid, date, amount, desc, cat_id) IN
    /\ expenses' = r.expenses
    /\ UNCHANGED <<categories, catSeq, expSeq>>
    /\ call' = [op |-> "update_expense", args |-> <<eid, date, amount, desc, cat_id>>,
                raised |-> r.raised, result |-> r.result]
    /\ IF r.raised THEN Crash
       ELSE Finish(IF r.result THEN "Updated." ELSE "No update performed (check id).")

\* --- main(): the menu ---
RECURSIVE seed_categories(_, _, _, _)
seed_categories(cats, seq, existing, i) ==
    IF i > Len(defaults) THEN [raised |-> FALSE, categories |-> cats, seq |-> seq]
    ELSE IF defaults[i] \in existing
    THEN seed_categories(cats, seq, existing, i + 1)
    ELSE LET r == add_category(cats, seq, defaults[i]) IN
         IF r.raised THEN [raised |-> TRUE, categories |-> cats, seq |-> seq]
         ELSE seed_categories(r.categories, r.seq, existing, i + 1)

\* add_random(month_offset) with the draw given
add_random(exps, cats, seq, month_offset, draw) ==
    LET m0 == Today.month + month_offset
        m == IF m0 <= 0 THEN m0 + 12 ELSE m0
        y == IF m0 <= 0 THEN Today.year - 1 ELSE Today.year
        ids == {c[1] : c \in list_categories(cats)}
        cid == IF draw[4] = "lowest"
               THEN CHOOSE x \in ids : \A z \in ids : x <= z
               ELSE CHOOSE x \in ids : \A z \in ids : x >= z
    IN add_expense(exps, cats, seq, IsoDate(y, m, draw[1]), Round2(draw[2] * 10),
                   draw[3], cid)

RECURSIVE seed_expenses(_, _, _, _, _)
seed_expenses(exps, cats, seq, draws, i) ==
    IF i > Len(draws) THEN [raised |-> FALSE, expenses |-> exps, seq |-> seq]
    ELSE LET r == add_random(exps, cats, seq,
                             IF i <= SeedThisMonth THEN 0 ELSE -1, draws[i]) IN
         IF r.raised THEN [raised |-> TRUE, expenses |-> exps, seq |-> seq]
         ELSE seed_expenses(r.expenses, cats, r.seq, draws, i + 1)

action_seed_demo ==
    \E draw \in DemoDraws :
      LET draws == [i \in 1..(SeedThisMonth + SeedPrevMonth) |-> draw]
          existing == {c[2] : c \in list_categories(categories)}
          sc == seed_categories(categories, catSeq, existing, 1)
          se == seed_expenses(expenses, sc.categories, expSeq, draws, 1)
      IN /\ categories' = sc.categories
         /\ catSeq' = sc.seq
         /\ expenses' = IF sc.raised THEN expenses ELSE se.expenses
         /\ expSeq' = IF sc.raised THEN expSeq ELSE se.seq
         /\ call' = [op |-> "seed_demo", args |-> <<>>,
                     raised |-> sc.raised \/ se.raised, result |-> NULL]
         /\ IF sc.raised \/ se.raised THEN Crash ELSE Finish("Seeded demo data.")

\* one turn of main()'s loop up to the first prompt of the chosen action;
\* addCap and seedCap bound the ids the model lets the expenses reach
MenuSelect(lines, addCap, seedCap) ==
    \E line \in lines :
      /\ Reads("menu", line)
      /\ (line = Digits(3) => expSeq < addCap)
      /\ (line = Digits(9) => expSeq < seedCap)
      /\ CASE line = Digits(1) -> Goto("cat.name", NoLoc)
           [] line = Digits(2) ->
                /\ StoreUnchanged
                /\ call' = [op |-> "list_categories", args |-> <<>>, raised |-> FALSE,
                            result |-> list_categories(categories)]
                /\ Finish(IF categories = {} THEN "No categories found." ELSE "table")
           [] line = Digits(3) -> Goto("add.date", NoLoc)
           [] line = Digits(4) -> Goto("list.from", NoLoc)
           [] line = Digits(5) -> Goto("sum.year", NoLoc)
           [] line = Digits(6) -> Goto("upd.id", NoLoc)
           [] line = Digits(7) -> Goto("del.id", NoLoc)
           [] line = Digits(8) ->
                LET rows == list_expenses(expenses, categories, NULL, NULL, NULL) IN
                /\ StoreUnchanged
                /\ call' = [op |-> "list_expenses", args |-> <<NULL, NULL, NULL>>,
                            raised |-> FALSE, result |-> rows]
                /\ Finish(IF rows = <<>> THEN "No expenses to export." ELSE "Exported.")
           [] line = Digits(9) -> action_seed_demo
           [] line = Digits(0) ->
                /\ pc' = "done" /\ out' = "Goodbye!" /\ loc' = NoLoc
                /\ status' = "exited" /\ call' = call /\ StoreUnchanged
           [] OTHER ->
                /\ Finish("Invalid option.") /\ call' = call /\ StoreUnchanged

\* input("\nPress Enter to continue..."), then the screen is cleared and the
\* menu is shown again
PauseEnter ==
    \E line \in PauseLines :
      /\ Reads("pause", line)
      /\ pc' = "menu" /\ out' = "banner" /\ loc' = NoLoc /\ status' = status
      /\ call' = NoCall /\ StoreUnchanged

\* --- action_add_category ---
AddCategoryName(lines) ==
    \E line \in lines :
      /\ Reads("cat.name", line)
      /\ LET name == Stripped(line) IN
         IF name = <<>>
         THEN /\ Finish("Name cannot be empty.") /\ call' = call /\ StoreUnchanged
         ELSE LET r == add_category(categories, catSeq, name) IN
              /\ categories' = r.categories
              /\ catSeq' = r.seq
              /\ UNCHANGED <<expenses, expSeq>>
              /\ call' = [op |-> "add_category", args |-> <<name>>,
                          raised |-> r.raised, result |-> r.id]
              /\ Finish(IF r.raised THEN "Error (maybe the category already exists)"
                        ELSE "Category added.")

\* --- action_add_expense ---
AddExpenseDate ==
    \E line \in DateLines :
      /\ Reads("add.date", line)
      /\ LET date == parse_iso_date(line) IN
         IF date = NULL THEN Again("Invalid date, please try again.")
         ELSE Goto("add.amount", [loc EXCEPT !.date = date])

AddExpenseAmount ==
    \E line \in AmountLines :
      /\ Reads("add.amount", line)
      /\ LET amount == parse_amount(line) IN
         IF amount = NULL THEN Again("Invalid amount, must be positive number.")
         ELSE Goto("add.desc", [loc EXCEPT !.amount = amount])

AddExpenseDescription ==
    \E line \in DescLines :
      /\ Reads("add.desc", line)
      /\ LET desc == Stripped(line) IN
         IF list_categories(categories) = {}
         THEN DoAddExpense(loc.date, loc.amount, desc, NULL)
         ELSE Goto("add.cat", [loc EXCEPT !.desc = desc])

AddExpenseCategory ==
    \E line \in CategoryLines :
      /\ Reads("add.cat", line)
      /\ LET c == choose_category(categories, line) IN
         IF c.again THEN Again("Invalid category id.")
         ELSE DoAddExpense(loc.date, loc.amount, loc.desc, c.cid)

\* --- action_list_expenses (each date is parsed here as it is read; the
\* code parses both after the second prompt, parse_iso_date being pure) ---
ListFrom ==
    \E line \in DateLines :
      /\ Reads("list.from", line)
      /\ Goto("list.to",
              [loc EXCEPT !.date = IF IsBlank(line) THEN NULL ELSE parse_iso_date(line)])

ListTo ==
    \E line \in DateLines :
      /\ Reads("list.to", line)
      /\ Goto("list.yn",
              [loc EXCEPT !.date_to = IF IsBlank(line) THEN NULL
                                      ELSE parse_iso_date(line)])

ListFilterByCategory ==
    \E line \in YesNoLines :
      /\ Reads("list.yn", line)
      /\ LET a == yn(line, FALSE) IN
         IF a.again THEN Again("Please answer with 'y' or 'n'.")
         ELSE IF a.value /\ list_categories(categories) # {} THEN Goto("list.cat", loc)
         ELSE DoListExpenses(loc.date, loc.date_to, NULL)

ListCategory ==
    \E line \in CategoryLines :
      /\ Reads("list.cat", line)
      /\ LET c == choose_category(categories, line) IN
         IF c.again THEN Again("Invalid category id.")
         ELSE DoListExpenses(loc.date, loc.date_to, c.cid)

\* --- action_monthly_summary ---
SummaryYear ==
    \E line \in YearLines :
      /\ Reads("sum.year", line)
      /\ IF line.k = "digits" /\ 1900 <= line.n /\ line.n <= 9999
         THEN Goto("sum.month", [loc EXCEPT !.year = line.n])
         ELSE Again("Invalid year.")

SummaryMonth ==
    \E line \in MonthLines :
      /\ Reads("sum.month", line)
      /\ IF line.k = "digits" /\ 1 <= line.n /\ line.n <= 12
         THEN \E ord \in TotalOrders(expenses, categories, loc.year, line.n) :
                LET totals == monthly_totals_by_category(expenses, categories,
                                                         loc.year, line.n, ord) IN
                /\ StoreUnchanged
                /\ call' = [op |-> "monthly_totals_by_category",
                            args |-> <<loc.year, line.n>>,
                            raised |-> FALSE, result |-> totals]
                /\ Finish(IF totals = <<>> THEN "No data for that period." ELSE "table")
         ELSE Again("Invalid month.")

\* --- action_update_expense ---
UpdateId ==
    \E line \in IdLines :
      /\ Reads("upd.id", line)
      /\ IF line.k # "digits"
         THEN /\ Finish("Invalid id.") /\ call' = call /\ StoreUnchanged
         ELSE Goto("upd.date", [loc EXCEPT !.eid = line.n])

UpdateDate ==
    \E line \in DateLines :
      /\ Reads("upd.date", line)
      /\ Goto("upd.amount",
              [loc EXCEPT !.date = IF IsBlank(line) THEN NULL ELSE parse_iso_date(line)])

UpdateAmount ==
    \E line \in AmountLines :
      /\ Reads("upd.amount", line)
      /\ Goto("upd.desc",
              [loc EXCEPT !.amount = IF IsBlank(line) THEN NULL ELSE parse_amount(line)])

UpdateDescription ==
    \E line \in DescLines :
      /\ Reads("upd.desc", line)
      /\ Goto("upd.yn",
              [loc EXCEPT !.desc = IF Stripped(line) = <<>> THEN NoText
                                   ELSE Stripped(line)])

UpdateChangeCategory ==
    \E line \in YesNoLines :
      /\ Reads("upd.yn", line)
      /\ LET a == yn(line, FALSE) IN
         IF a.again THEN Again("Please answer with 'y' or 'n'.")
         ELSE IF a.value /\ list_categories(categories) # {} THEN Goto("upd.cat", loc)
         ELSE DoUpdateExpense(loc.eid, loc.date, loc.amount, loc.desc, NULL)

UpdateCategory ==
    \E line \in CategoryLines :
      /\ Reads("upd.cat", line)
      /\ LET c == choose_category(categories, line) IN
         IF c.again THEN Again("Invalid category id.")
         ELSE DoUpdateExpense(loc.eid, loc.date, loc.amount, loc.desc, c.cid)

\* --- action_delete_expense ---
DeleteId ==
    \E line \in IdLines :
      /\ Reads("del.id", line)
      /\ IF line.k # "digits"
         THEN /\ Finish("Invalid id.") /\ call' = call /\ StoreUnchanged
         ELSE Goto("del.yn", [loc EXCEPT !.eid = line.n])

DeleteConfirm ==
    \E line \in YesNoLines :
      /\ Reads("del.yn", line)
      /\ LET a == yn(line, FALSE) IN
         IF a.again THEN Again("Please answer with 'y' or 'n'.")
         ELSE IF a.value
         THEN LET r == delete_expense(expenses, loc.eid) IN
              /\ expenses' = r.expenses
              /\ UNCHANGED <<categories, catSeq, expSeq>>
              /\ call' = [op |-> "delete_expense", args |-> <<loc.eid>>,
                          raised |-> FALSE, result |-> r.result]
              /\ Finish(IF r.result THEN "Deleted." ELSE "Not found.")
         ELSE /\ Finish("") /\ call' = call /\ StoreUnchanged

\* --- the process-level events at a prompt ---
\* Ctrl-C: KeyboardInterrupt reaches main()'s handler, which breaks the loop.
Interrupt ==
    /\ status = "running" /\ pc \in Prompts
    /\ input' = [k |-> "interrupt"]
    /\ pc' = "done" /\ out' = "Interrupted. Exiting." /\ loc' = NoLoc
    /\ status' = "exited" /\ call' = call /\ StoreUnchanged

\* End of input: ask() turns EOFError into sys.exit(0); the acknowledgment
\* prompt is a bare input(), whose EOFError nothing catches.
EndOfInput ==
    /\ status = "running" /\ pc \in Prompts
    /\ input' = [k |-> "eof"]
    /\ pc' = "done" /\ loc' = NoLoc
    /\ out' = IF pc = "pause" THEN "traceback" ELSE ""
    /\ status' = IF pc = "pause" THEN "crashed" ELSE "exited"
    /\ call' = call /\ StoreUnchanged

MainMenu == MenuSelect(MenuLines, MaxMenuExpenses, MaxMenuExpenses + 1)

AddCategory == AddCategoryName(NameLines)

MenuNext ==
    \/ MainMenu
    \/ PauseEnter
    \/ AddCategory
    \/ AddExpenseDate
    \/ AddExpenseAmount
    \/ AddExpenseDescription
    \/ AddExpenseCategory
    \/ ListFrom
    \/ ListTo
    \/ ListFilterByCategory
    \/ ListCategory
    \/ SummaryYear
    \/ SummaryMonth
    \/ UpdateId
    \/ UpdateDate
    \/ UpdateAmount
    \/ UpdateDescription
    \/ UpdateChangeCategory
    \/ UpdateCategory
    \/ DeleteId
    \/ DeleteConfirm
    \/ Interrupt
    \/ EndOfInput

Spec == Init /\ [][MenuNext]_vars

\* The menu with the category options only (add, list, seed, exit), with
\* more names and several seed runs.
CategoryMenu ==
    MenuSelect(CategoryMenuLines, 0,
               (MaxSeedRuns - 1) * (SeedThisMonth + SeedPrevMonth) + 1)

CategoryAdd == AddCategoryName(CategoryNameLines)

CategoryNext ==
    \/ CategoryMenu
    \/ PauseEnter
    \/ CategoryAdd
    \/ Interrupt
    \/ EndOfInput

CategorySpec == Init /\ [][CategoryNext]_vars

(***************************************************************************)
(* Properties of the persistence layer.                                    *)
(***************************************************************************)
RowsOf(seq) == {seq[i] : i \in 1..Len(seq)}

AllRows(exps, cats) == list_expenses(exps, cats, NULL, NULL, NULL)

NoDanglingReference ==
    \A e \in expenses : e.category_id = NULL \/ e.category_id \in CatIds(categories)

CategoryRemovalKeepsExpenses ==
    LET gone == CatIds(categories) \ CatIds(categories') IN
    gone # {} =>
        /\ ExpIds(expenses') = ExpIds(expenses)
        /\ Cardinality(expenses') = Cardinality(expenses)
        /\ \A e \in expenses :
             IF e.category_id \in gone
             THEN /\ [e EXCEPT !.category_id = NULL] \in expenses'
                  /\ <<e.id, e.date, e.amount,
                       IF e.description = NoText THEN <<>> ELSE e.description,
                       Placeholder>> \in RowsOf(AllRows(expenses', categories'))
             ELSE e \in expenses'

\* C4: no expense ever references a category that does not exist, and
\* removing a category deletes no expense: the expenses that referenced it
\* keep every other field, get category_id NULL and are listed with "-".
C4_NoDanglingCategory ==
    [](NoDanglingReference) /\ [][CategoryRemovalKeepsExpenses]_vars

C4_Witness ==
    /\ call.op = "delete_category"
    /\ call.result # {}
    /\ \A i \in call.result : \E e \in expenses : e.id = i /\ e.category_id = NULL

\* C5: list_expenses returns exactly the expenses that pass every supplied
\* filter (date_from and date_to inclusive, category_id equal), ordered by
\* date descending and then id descending.
C5_ListExpensesFilterAndOrder ==
    call.op = "list_expenses" =>
        LET df == call.args[1]
            dt == call.args[2]
            cid == call.args[3]
            rows == call.result
            want == {e \in expenses :
                       /\ (df # NULL => e.date >= df)
                       /\ (dt # NULL => e.date <= dt)
                       /\ (cid # NULL => e.category_id = cid)}
        IN /\ Len(rows) = Cardinality(want)
           /\ {r[1] : r \in RowsOf(rows)} = ExpIds(want)
           /\ \A r \in RowsOf(rows) : \E e \in want :
                 e.id = r[1] /\ e.date = r[2] /\ e.amount = r[3]
           /\ \A i, j \in 1..Len(rows) : i < j =>
                 \/ rows[i][2] > rows[j][2]
                 \/ (rows[i][2] = rows[j][2] /\ rows[i][1] > rows[j][1])

C5_Witness ==
    /\ call.op = "list_expenses"
    /\ call.args[1] # NULL /\ call.args[2] # NULL /\ call.args[3] # NULL
    /\ Len(call.result) = 1
    /\ Cardinality(expenses) = 2

\* C6: monthly_totals_by_category returns one row per category with an
\* expense in the month, carrying the sum of those amounts, one row "-" for
\* the month's expenses without category, no two rows with the same name,
\* nothing from other months, totals descending.
C6_MonthlyTotalsOneRowPerName ==
    call.op = "monthly_totals_by_category" =>
        LET year == call.args[1]
            month == call.args[2]
            rows == call.result
            inMonth == {e \in expenses : e.date \div 100 = year * 100 + month}
            of(cid) == {e \in inMonth : e.category_id = cid}
            used == {c \in categories : of(c.id) # {}}
        IN /\ \A i, j \in 1..Len(rows) : i # j => rows[i][1] # rows[j][1]
           /\ Len(rows) = Cardinality(used) + (IF of(NULL) # {} THEN 1 ELSE 0)
           /\ \A c \in used : <<c.name, SumAmounts(of(c.id))>> \in RowsOf(rows)
           /\ of(NULL) # {} => <<Placeholder, SumAmounts(of(NULL))>> \in RowsOf(rows)
           /\ \A i, j \in 1..Len(rows) : i < j => rows[i][2] >= rows[j][2]

\* C8: a successful add_expense adds exactly one record to the unfiltered
\* listing: the returned fresh id, the date and amount given, the trimmed
\* description and the category's name ("-" for none); every record listed
\* before is still listed unchanged.
C8_AddThenListRoundTrip ==
    [][expSeq' # expSeq =>
        LET a == call'.args
            before == RowsOf(AllRows(expenses, categories))
            after == RowsOf(AllRows(expenses', categories'))
            name == IF a[4] = NULL THEN Placeholder
                    ELSE (CHOOSE c \in categories : c.id = a[4]).name
        IN /\ call'.op = "add_expense" /\ ~call'.raised
           /\ call'.result \notin ExpIds(expenses)
           /\ call'.result > expSeq
           /\ before \subseteq after
           /\ after \ before = {<<call'.result, a[1], a[2], strip(a[3]), name>>}
           /\ Len(AllRows(expenses', categories')) = Len(AllRows(expenses, categories)) + 1
    ]_vars

C8_Witness ==
    /\ call.op = "add_expense" /\ ~call.raised
    /\ call.args[3] = <<Blank, "a", Blank>>
    /\ call.args[4] # NULL
    /\ Cardinality(expenses) = 2
    /\ \E r \in RowsOf(AllRows(expenses, categories)) :
          r[1] = call.result /\ r[4] = <<"a">>

(***************************************************************************)
(* Properties of the menu controller.                                      *)
(***************************************************************************)
\* the step in which action_update_expense calls storage.update_expense
UpdateCallStep == pc \in {"upd.yn", "upd.cat"} /\ pc' = "pause"

\* C1: update_expense changes only the fields supplied; after "no" to
\* "Change category?" every omitted field, the category reference included,
\* keeps its value.
C1_UpdateChangesOnlySuppliedFields ==
    [][(pc = "upd.yn" /\ pc' = "pause") =>
        \A e \in expenses : \E n \in expenses' :
            /\ n.id = e.id
            /\ n.category_id = e.category_id
            /\ (loc.date = NULL => n.date = e.date)
            /\ (loc.amount = NULL => n.amount = e.amount)
            /\ (loc.desc = NoText => n.description = e.description)
            /\ (e.id # loc.eid => n = e)
    ]_vars

\* C2: update_expense returns false and changes nothing when the id does
\* not exist or no field is supplied, and returns true only for an existing
\* id with at least one field supplied.
C2_UpdateReturnsFalseWithoutFields ==
    [][UpdateCallStep =>
        LET a == call'.args
            missing == a[1] \notin ExpIds(expenses)
            nofield == a[2] = NULL /\ a[3] = NULL /\ a[4] = NoText /\ a[5] = NULL
        IN /\ call'.op = "update_expense"
           /\ (missing \/ nofield) =>
                 /\ call'.result = FALSE
                 /\ expenses' = expenses /\ categories' = categories
           /\ call'.result = TRUE => ~missing /\ ~nofield
    ]_vars

\* C3: every stored expense has a strictly positive amount, in whole cents.
C3_StoredAmountsPositive ==
    \A e \in expenses : e.amount > 0 /\ e.amount % 10 = 0

\* C7: category names are pairwise distinct; adding a name that exists
\* (after trimming, case-sensitively) raises, adds no row, changes nothing
\* and the loop goes on; seeding never raises and never duplicates a name.
NamesDistinct ==
    \A c, d \in categories : (c.name = d.name \/ c.id = d.id) => c = d

DuplicateAddFails ==
    (/\ pc = "cat.name" /\ input'.k = "text"
     /\ \E c \in categories : c.name = strip(input'.t)) =>
        /\ call'.op = "add_category" /\ call'.raised
        /\ categories' = categories /\ catSeq' = catSeq
        /\ expenses' = expenses /\ expSeq' = expSeq
        /\ out' = "Error (maybe the category already exists)"
        /\ pc' = "pause" /\ status' = "running"

SeedNeverFails ==
    (pc = "menu" /\ input'.k = "digits" /\ input'.n = 9) =>
        /\ status' = "running" /\ pc' = "pause"
        /\ call'.op = "seed_demo" /\ ~call'.raised
        /\ categories \subseteq categories'
        /\ \A i \in 1..Len(defaults) :
              Cardinality({c \in categories' : c.name = defaults[i]}) = 1

C7_CategoryNamesDistinct ==
    [](NamesDistinct) /\ [][DuplicateAddFails /\ SeedNeverFails]_vars

C7_Witness ==
    /\ call.op = "add_category" /\ call.raised
    /\ call.args[1] = <<"Food">>
    /\ input = Text(<<Blank, "Food", Blank>>)
    /\ expSeq = MaxSeedRuns * (SeedThisMonth + SeedPrevMonth)
    /\ pc = "pause" /\ status = "running"

\* C9: an interrupt or the end of input at any prompt ends the process
\* cleanly, with no error and no store mutation; so does option 0.
C9_CleanExitAtEveryPrompt ==
    [][/\ (status = "running" /\ input'.k \in {"eof", "interrupt"}) =>
            /\ status' = "exited"
            /\ UNCHANGED <<categories, expenses, catSeq, expSeq>>
       /\ (status = "running" /\ pc = "menu" /\ input'.k = "digits" /\ input'.n = 0) =>
            status' = "exited"
    ]_vars

\* C10: at a prompt for a date, an amount, an expense id, a year or a month,
\* a non-empty line that fails validation is reported and the same prompt
\* is repeated.
DatePrompts == {"add.date", "list.from", "list.to", "upd.date"}
AmountPrompts == {"add.amount", "upd.amount"}
IdPrompts == {"upd.id", "del.id"}

Rejected(p, s) ==
    /\ s.k \notin {"eof", "interrupt"}
    /\ ~IsBlank(s)
    /\ CASE p \in DatePrompts -> parse_iso_date(s) = NULL
         [] p \in AmountPrompts -> parse_amount(s) = NULL
         [] p \in IdPrompts -> s.k # "digits"
         [] p = "sum.year" -> ~(s.k = "digits" /\ s.n \in 1900..9999)
         [] p = "sum.month" -> ~(s.k = "digits" /\ s.n \in 1..12)
         [] OTHER -> FALSE

C10_InvalidInputRepeatsPrompt ==
    [][(status = "running" /\ Rejected(pc, input')) =>
        /\ pc' = pc
        /\ out' \in {"Invalid date, please try again.",
                     "Invalid amount, must be positive number.",
                     "Invalid id.", "Invalid year.", "Invalid month."}
        /\ UNCHANGED <<categories, expenses, catSeq, expSeq>>
    ]_vars

====
